---- MODULE Spec2Model ----
(***************************************************************************)
(* Model of app.py: the NernstPlanckSimulator mobility computation, the    *)
(* migration-time / electropherogram synthesis of main(), and the          *)
(* Firebase-guarded Streamlit script run.                                  *)
(*                                                                         *)
(* Floating-point numbers (Python float / numpy.float64) are modelled as   *)
(* decimal floating-point values  s * m * 10^e  with an 8-digit mantissa,  *)
(* round-to-nearest, the binary64 overflow threshold, +-inf and nan.       *)
(* Python's float division raises ZeroDivisionError on a zero divisor,     *)
(* numpy's returns inf or nan; the two are separate operators.             *)
(***************************************************************************)
EXTENDS Integers, Sequences, FiniteSets

(***************************************************************************)
(* Floating-point format                                                   *)
(***************************************************************************)
MantDigits == 8
HalfBase == 10000
MantMin == 10000000
MantLim == 100000000
\* binary64: largest finite value 1.7976931e308, smallest positive 4.9e-324
MaxExp10 == 308
MaxMant == 17976931
MinExp10 == -324

RECURSIVE Pow10(_)
Pow10(d) == IF d = 0 THEN 1 ELSE 10 * Pow10(d - 1)

Zero == [k |-> "num", s |-> 1, m |-> 0, e |-> 0]
Inf(sg) == [k |-> "inf", s |-> sg, m |-> 0, e |-> 0]
NaN == [k |-> "nan", s |-> 1, m |-> 0, e |-> 0]
ZeroDivisionError == [k |-> "ZeroDivisionError", s |-> 1, m |-> 0, e |-> 0]

IsRaise(a) == a.k = "ZeroDivisionError"
IsNaN(a) == a.k = "nan"
IsInf(a) == a.k = "inf"
IsNum(a) == a.k = "num"
IsZero(a) == a.k = "num" /\ a.m = 0
IsFinite(a) == a.k = "num"

\* n >= 0 an integer below 2^31: the float s * n * 10^e, rounded to MantDigits
\* digits (half up), overflowing to inf and underflowing to zero as binary64.
RECURSIVE Norm(_, _, _)
Norm(sg, n, e) ==
    IF n = 0 THEN Zero
    ELSE IF n >= MantLim * 10 THEN Norm(sg, (n + 50) \div 100, e + 2)
    ELSE IF n >= MantLim THEN Norm(sg, (n + 5) \div 10, e + 1)
    ELSE IF n < MantMin THEN Norm(sg, n * 10, e - 1)
    ELSE IF e + MantDigits - 1 > MaxExp10
            \/ (e + MantDigits - 1 = MaxExp10 /\ n > MaxMant) THEN Inf(sg)
    ELSE IF e + MantDigits - 1 < MinExp10 THEN Zero
    ELSE [k |-> "num", s |-> sg, m |-> n, e |-> e]

\* The literal n * 10^e (n a non-negative integer), e.g. Dec(8854, -15).
Dec(n, e) == Norm(1, n, e)
One == Dec(1, 0)

Neg(a) == IF a.k \in {"num", "inf"} /\ ~IsZero(a) THEN [a EXCEPT !.s = -a.s] ELSE a
Abs(a) == IF a.k \in {"num", "inf"} THEN [a EXCEPT !.s = 1] ELSE a

\* a * b
Mul(a, b) ==
    IF IsRaise(a) \/ IsRaise(b) THEN ZeroDivisionError
    ELSE IF IsNaN(a) \/ IsNaN(b) THEN NaN
    ELSE IF IsInf(a) \/ IsInf(b)
         THEN IF IsZero(a) \/ IsZero(b) THEN NaN ELSE Inf(a.s * b.s)
    ELSE IF IsZero(a) \/ IsZero(b) THEN Zero
    ELSE LET ah == a.m \div HalfBase
             al == a.m % HalfBase
             bh == b.m \div HalfBase
             bl == b.m % HalfBase
             L  == al * bl
             M  == ah * bl + al * bh + L \div HalfBase
             H  == ah * bh + M \div HalfBase
             M1 == M % HalfBase
         IN  IF H >= MantMin
             THEN Norm(a.s * b.s, H + (IF M1 >= 5000 THEN 1 ELSE 0),
                       a.e + b.e + MantDigits)
             ELSE Norm(a.s * b.s,
                       H * 10 + M1 \div 1000 + (IF M1 % 1000 >= 500 THEN 1 ELSE 0),
                       a.e + b.e + MantDigits - 1)

\* n more quotient digits of r / d by long division
RECURSIVE DivDigits(_, _, _, _)
DivDigits(q, r, d, n) ==
    IF n = 0 THEN [q |-> q, r |-> r]
    ELSE DivDigits(q * 10 + (r * 10) \div d, (r * 10) % d, d, n - 1)

\* a / b for finite non-zero a and b
DivNum(a, b) ==
    LET qr == DivDigits(a.m \div b.m, a.m % b.m, b.m, MantDigits)
        up == IF qr.q < MantLim /\ 2 * qr.r >= b.m THEN 1 ELSE 0
    IN  Norm(a.s * b.s, qr.q + up, a.e - b.e - MantDigits)

\* numpy.float64 true division: x/0 is +-inf, 0/0 is nan
NpDiv(a, b) ==
    IF IsRaise(a) \/ IsRaise(b) THEN ZeroDivisionError
    ELSE IF IsNaN(a) \/ IsNaN(b) THEN NaN
    ELSE IF IsInf(a) THEN (IF IsInf(b) THEN NaN ELSE Inf(a.s * b.s))
    ELSE IF IsInf(b) THEN Zero
    ELSE IF IsZero(b) THEN (IF IsZero(a) THEN NaN ELSE Inf(a.s))
    ELSE IF IsZero(a) THEN Zero
    ELSE DivNum(a, b)

\* Python float true division: a zero divisor raises ZeroDivisionError
PyDiv(a, b) ==
    IF IsRaise(a) \/ IsRaise(b) THEN ZeroDivisionError
    ELSE IF IsZero(b) THEN ZeroDivisionError
    ELSE NpDiv(a, b)

\* a + b
Add(a, b) ==
    IF IsRaise(a) \/ IsRaise(b) THEN ZeroDivisionError
    ELSE IF IsNaN(a) \/ IsNaN(b) THEN NaN
    ELSE IF IsInf(a) THEN (IF IsInf(b) /\ a.s # b.s THEN NaN ELSE a)
    ELSE IF IsInf(b) THEN b
    ELSE IF IsZero(a) THEN b
    ELSE IF IsZero(b) THEN a
    ELSE LET big   == IF a.e >= b.e THEN a ELSE b
             small == IF a.e >= b.e THEN b ELSE a
             d     == big.e - small.e
             sm    == IF d = 0 THEN small.m * 10
                      ELSE IF d = 1 THEN small.m
                      ELSE (small.m + 5 * Pow10(d - 2)) \div Pow10(d - 1)
             n     == big.s * big.m * 10 + small.s * sm
         IN  IF d > MantDigits + 1 THEN big
             ELSE Norm(IF n < 0 THEN -1 ELSE 1, IF n < 0 THEN -n ELSE n, big.e - 1)

Sub(a, b) == Add(a, Neg(b))

\* a < b on floats; any comparison with nan is false
Less(a, b) ==
    IF ~(a.k \in {"num", "inf"}) \/ ~(b.k \in {"num", "inf"}) THEN FALSE
    ELSE LET d == Sub(b, a) IN d.k \in {"num", "inf"} /\ ~IsZero(d) /\ d.s = 1

IsPositive(a) == a.k \in {"num", "inf"} /\ ~IsZero(a) /\ a.s = 1
IsNegative(a) == a.k \in {"num", "inf"} /\ ~IsZero(a) /\ a.s = -1

\* numpy.sqrt: nan for a negative argument; Newton's iteration otherwise
RECURSIVE SqrtIter(_, _, _)
SqrtIter(a, x, n) ==
    IF n = 0 THEN x
    ELSE SqrtIter(a, Mul(Dec(5, -1), Add(x, DivNum(a, x))), n - 1)

SqrtSteps == 6

Sqrt(a) ==
    IF IsRaise(a) THEN ZeroDivisionError
    ELSE IF IsNaN(a) THEN NaN
    ELSE IF IsZero(a) THEN Zero
    ELSE IF a.s = -1 THEN NaN
    ELSE IF IsInf(a) THEN a
    ELSE LET ev == (a.e % 2 = 0)
             x0 == IF ev THEN [k |-> "num", s |-> 1, m |-> 5 * MantMin,
                               e |-> a.e \div 2 - 4]
                   ELSE [k |-> "num", s |-> 1, m |-> 2 * MantMin,
                         e |-> (a.e - 1) \div 2 - 3]
         IN  SqrtIter(a, x0, SqrtSteps)

\* The integer nearest to a finite float of magnitude below 10^MantDigits
Round(a) ==
    IF IsZero(a) THEN 0
    ELSE IF a.e >= 0 THEN a.s * a.m * Pow10(a.e)
    ELSE IF -a.e > MantDigits THEN 0
    ELSE a.s * ((a.m + 5 * Pow10(-a.e - 1)) \div Pow10(-a.e))

\* a / n for a finite non-zero float a and an integer 1 <= n <= 20
DivSmall(a, n) ==
    LET q == (a.m * 10) \div n
        r == (a.m * 10) % n
    IN  IF q >= MantLim THEN Norm(a.s, q, a.e - 1)
        ELSE Norm(a.s, q * 10 + (r * 10) \div n, a.e - 2)

Ln10 == Dec(23025851, -7)
ExpTerms == 13

\* 1 + r/n * (1 + r/(n+1) * (...)): the Taylor series of exp(r), Horner form
RECURSIVE ExpSeries(_, _)
ExpSeries(r, n) ==
    IF n > ExpTerms THEN One
    ELSE Add(One, Mul(DivSmall(r, n), ExpSeries(r, n + 1)))

\* numpy.exp: overflows to inf (no exception), underflows to 0
Exp(x) ==
    IF IsRaise(x) THEN ZeroDivisionError
    ELSE IF IsNaN(x) THEN NaN
    ELSE IF IsInf(x) THEN (IF x.s = 1 THEN x ELSE Zero)
    ELSE IF IsZero(x) THEN One
    ELSE IF x.e + MantDigits - 1 >= 4 THEN (IF x.s = 1 THEN Inf(1) ELSE Zero)
    ELSE LET kk == Round(DivNum(x, Ln10))
             kf == IF kk < 0 THEN Neg(Dec(-kk, 0)) ELSE Dec(kk, 0)
             r  == Sub(x, Mul(kf, Ln10))
             p  == IF IsZero(r) THEN One ELSE ExpSeries(r, 1)
         IN  Norm(1, p.m, p.e + kk)

(***************************************************************************)
(* NernstPlanckSimulator                                                   *)
(***************************************************************************)
\* self.constantes and the literals of calcular_mobilidade
epsilon_0 == Dec(8854, -15)
k_B == Dec(1380649, -29)
e_charge == Dec(16021766, -26)
np_pi == Dec(31415927, -7)
Avogadro == Dec(6022, 20)

eta_of(viscosidade) == Mul(viscosidade, Dec(1, -3))

epsilon_of(permissividade_rel) == Mul(permissividade_rel, epsilon_0)

\* (carga * e) / (6 * np.pi * eta * raio): Python floats, so a zero
\* denominator raises ZeroDivisionError
termo_stokes_of(carga, eta, raio) ==
    PyDiv(Mul(carga, e_charge), Mul(Mul(Mul(Dec(6, 0), np_pi), eta), raio))

\* the ionic-strength factor of the Debye denominator: forca_ionica * 1e3
forca_ionica_m3(forca_ionica) == Mul(forca_ionica, Dec(1, 3))

\* np.sqrt(epsilon * k_B * temperatura / (e**2 * forca_ionica * 1e3 * 6.022e23))
raio_debye_of(epsilon, temperatura, forca_ionica) ==
    Sqrt(PyDiv(Mul(Mul(epsilon, k_B), temperatura),
               Mul(Mul(Mul(e_charge, e_charge), forca_ionica_m3(forca_ionica)),
                   Avogadro)))

\* fator_debye_of with the sign of the screening term flipped
fator_debye_sinal_trocado(raio, raio_debye) ==
    NpDiv(One, Sub(One, NpDiv(raio, raio_debye)))

\* 1 / (1 + raio/raio_debye): raio_debye is a numpy.float64
fator_debye_of(raio, raio_debye) ==
    NpDiv(One, Add(One, NpDiv(raio, raio_debye)))

\* np.exp(298.15/temperatura - 1): the quotient is a Python float division
fator_temp_of(temperatura) ==
    Exp(Sub(PyDiv(Dec(29815, -2), temperatura), One))

\* mobilidade_of with the 1e5 scale of the simplified model
mobilidade_escala_1e5(termo_stokes, fator_debye, fator_temp) ==
    Mul(Mul(Mul(termo_stokes, fator_debye), fator_temp), Dec(1, 5))

\* termo_stokes * fator_debye * fator_temp * 1e8
mobilidade_of(termo_stokes, fator_debye, fator_temp) ==
    Mul(Mul(Mul(termo_stokes, fator_debye), fator_temp), Dec(1, 8))

\* One call: its locals and what it returns, a float or ZeroDivisionError
\* (the first Python division by zero met, in statement order).
chamada(carga, raio, viscosidade, permissividade_rel, temperatura, forca_ionica) ==
    LET eta == eta_of(viscosidade)
        epsilon == epsilon_of(permissividade_rel)
        termo_stokes == termo_stokes_of(carga, eta, raio)
        raio_debye == raio_debye_of(epsilon, temperatura, forca_ionica)
        fator_debye == fator_debye_of(raio, raio_debye)
        fator_temp == fator_temp_of(temperatura)
    IN  [termo_stokes |-> termo_stokes,
         raio_debye   |-> IF IsRaise(termo_stokes) THEN ZeroDivisionError
                          ELSE raio_debye,
         fator_debye  |-> IF IsRaise(termo_stokes) THEN ZeroDivisionError
                          ELSE fator_debye,
         fator_temp   |-> IF IsRaise(termo_stokes) \/ IsRaise(raio_debye)
                          THEN ZeroDivisionError ELSE fator_temp,
         retorno      |-> IF IsRaise(termo_stokes) \/ IsRaise(raio_debye)
                             \/ IsRaise(fator_temp)
                          THEN ZeroDivisionError
                          ELSE mobilidade_of(termo_stokes, fator_debye, fator_temp)]

calcular_mobilidade(carga, raio, viscosidade, permissividade_rel, temperatura, forca_ionica) ==
    chamada(carga, raio, viscosidade, permissividade_rel, temperatura,
            forca_ionica).retorno

(***************************************************************************)
(* main(): the body of "Executar Simulacao Completa"                       *)
(***************************************************************************)
NumPontos == 1000

\* (comprimento * 1e-2) / (mobilidade * 1e-8 * voltagem * 1e3); mobilidade is
\* a numpy.float64, so the division is numpy's
tempo_migracao_of(comprimento, mobilidade, voltagem) ==
    NpDiv(Mul(comprimento, Dec(1, -2)),
          Mul(Mul(Mul(mobilidade, Dec(1, -8)), voltagem), Dec(1, 3)))

\* linspace with endpoint=False: step = (stop - start)/num, stop left out
linspace_sem_endpoint(start, stop, num) ==
    LET step == NpDiv(Sub(stop, start), Dec(num, 0))
    IN  [i \in 1..num |->
            Add(Mul(IF i = 1 THEN Zero ELSE Dec(i - 1, 0), step), start)]

\* np.linspace(start, stop, num): step = (stop - start)/(num - 1), the samples
\* arange(num) * step + start, the last one set to stop
linspace(start, stop, num) ==
    LET step == NpDiv(Sub(stop, start), Dec(num - 1, 0))
    IN  [i \in 1..num |->
            IF i = num THEN stop
            ELSE Add(Mul(IF i = 1 THEN Zero ELSE Dec(i - 1, 0), step), start)]

\* np.exp(-(t - tempo_migracao)**2 / (2 * (tempo_migracao/10)**2)) * 100
intensidade(ti, tempo_migracao) ==
    LET d == Sub(ti, tempo_migracao)
        w == NpDiv(tempo_migracao, Dec(10, 0))
    IN  Mul(Exp(NpDiv(Neg(Mul(d, d)), Mul(Dec(2, 0), Mul(w, w)))), Dec(100, 0))

(***************************************************************************)
(* State                                                                   *)
(***************************************************************************)
VARIABLES
    pc,              \* where the script run is
    firebase_apps,   \* firebase_admin._apps is non-empty (lives in the process)
    firebase_ready,  \* module global, "unset" until the try block has run
    db,              \* module global: "unbound" or "client"
    db_uso,          \* the places of this run that dereferenced db
    erro,            \* the uncaught exception that ended this run, or "none"
    nome_molecula,   \* text input of tab1 (0 is the empty string)
    dados,           \* result of buscar_molecula in this run, or 0 for None
    clicked,         \* the button whose click started this run
    moleculas,       \* documents of the Firestore collection "moleculas"
    voltagem, comprimento, temperatura, viscosidade, forca_ionica,  \* sliders
    mobilidade, tempo_migracao, t, y,   \* locals of the simulation block
    raio_debye,      \* local of the last calcular_mobilidade call
    args, ret, ret2  \* a direct caller of calcular_mobilidade: arguments, results

vars == <<pc, firebase_apps, firebase_ready, db, db_uso, erro, nome_molecula,
          dados, clicked, moleculas, voltagem, comprimento, temperatura,
          viscosidade, forca_ionica, mobilidade, tempo_migracao, t, y,
          raio_debye, args, ret, ret2>>

firebase == <<firebase_apps, firebase_ready, db, db_uso, moleculas>>
sliders == <<voltagem, comprimento, temperatura, viscosidade, forca_ionica>>
simulacao == <<mobilidade, tempo_migracao, t, y, raio_debye>>
chamador == <<args, ret, ret2>>

None == [k |-> "None", s |-> 1, m |-> 0, e |-> 0]
NoArgs == [carga |-> None, raio |-> None, viscosidade |-> None,
           permissividade_rel |-> None, temperatura |-> None,
           forca_ionica |-> None, forca_ionica2 |-> None]

\* Number of distinct molecule names the user types (name i has CID i)
NumNomes == 1
Nomes == 0..NumNomes

\* st.slider defaults; viscosidade is kept in tenths of cP (step 0.1)
VoltagemDefault == 15
ComprimentoDefault == 50
TemperaturaDefault == 25
ViscosidadeDefault == 10
ForcaIonicaDefault == 50

\* Slider positions explored: ends of each slider range and the default
VoltagemDom == {5, 30}
ComprimentoDom == {10, 100}
TemperaturaDom == {15, 25, 40}
ViscosidadeDom == {8, 25}
ForcaIonicaDom == {10, 50, 200}

Float(n) == IF n < 0 THEN Neg(Dec(-n, 0)) ELSE Dec(n, 0)
ViscosidadeFloat(v) == Dec(v, -1)
Kelvin(temp) == Add(Float(temp), Dec(27315, -2))

(***************************************************************************)
(* The script run: module level, then main()                               *)
(***************************************************************************)
\* try: db = init_firebase(); firebase_ready = True / except: firebase_ready = False
firebase_ready_apos(resultado) == resultado = "ok"

\* init_firebase() inside the module-level try block.  Certificate() and
\* initialize_app() run only while firebase_admin._apps is empty; either they
\* or firestore.client() may raise.
InitFirebase ==
    /\ pc = "init_firebase"
    /\ \E resultado \in {"certificate_raises", "client_raises", "ok"} :
          /\ resultado = "certificate_raises" => ~firebase_apps
          /\ firebase_apps' = (firebase_apps \/ resultado # "certificate_raises")
          /\ firebase_ready' = firebase_ready_apos(resultado)
          /\ db' = IF resultado = "ok" THEN "client" ELSE "unbound"
    /\ pc' = "tab1"
    /\ UNCHANGED <<db_uso, erro, nome_molecula, dados, clicked, moleculas>>
    /\ UNCHANGED <<sliders, simulacao, chamador>>

\* the save without its guard
salvar_sem_guard == TRUE

\* "if firebase_ready:" in front of db.collection(...).document(...).set(dados)
salvar_guard == firebase_ready = TRUE

\* "if firebase_ready:" in front of db.collection("moleculas").stream()
banco_guard == firebase_ready = TRUE

\* tab1: buscar_molecula (PubChem finds the name or raises, which gives None),
\* then the "Salvar no Banco" button, rendered only when dados is not None
Tab1 ==
    /\ pc = "tab1"
    /\ \E achou \in BOOLEAN :
          /\ dados' = IF nome_molecula # 0 /\ achou THEN nome_molecula ELSE 0
          /\ IF dados' # 0 /\ clicked = "salvar" /\ salvar_guard
             THEN /\ db_uso' = db_uso \cup {"salvar"}
                  /\ IF db = "unbound"
                     THEN erro' = "NameError" /\ pc' = "idle"
                          /\ UNCHANGED moleculas
                     ELSE moleculas' = moleculas \cup {dados'}
                          /\ pc' = "tab2" /\ UNCHANGED erro
             ELSE pc' = "tab2" /\ UNCHANGED <<db_uso, erro, moleculas>>
    /\ UNCHANGED <<firebase_apps, firebase_ready, db, nome_molecula, clicked>>
    /\ UNCHANGED <<sliders, simulacao, chamador>>

\* tab2: the sliders, then the body of "Executar Simulacao Completa";
\* gerar_relatorio_pdf raises when temp_plot.png is not on disk
Tab2 ==
    /\ pc = "tab2"
    /\ IF clicked = "simular"
       THEN LET c == chamada(Dec(2, 0), Dec(1, -9), ViscosidadeFloat(viscosidade),
                             Dec(785, -1), Kelvin(temperatura), Float(forca_ionica))
            IN  /\ raio_debye' = c.raio_debye
                /\ mobilidade' = c.retorno
                /\ IF IsRaise(mobilidade')
                   THEN /\ tempo_migracao' = None /\ t' = <<>> /\ y' = <<>>
                        /\ erro' = "ZeroDivisionError" /\ pc' = "idle"
                   ELSE /\ tempo_migracao' =
                             tempo_migracao_of(Float(comprimento), mobilidade',
                                               Float(voltagem))
                        /\ t' = linspace(Zero, Mul(tempo_migracao', Dec(15, -1)),
                                         NumPontos)
                        /\ y' = [i \in 1..NumPontos |->
                                    intensidade(t'[i], tempo_migracao')]
                        /\ \E png \in BOOLEAN :
                              IF png THEN pc' = "tab3" /\ UNCHANGED erro
                              ELSE pc' = "idle" /\ erro' = "RuntimeError"
       ELSE pc' = "tab3" /\ UNCHANGED <<simulacao, erro>>
    /\ UNCHANGED <<firebase, nome_molecula, dados, clicked, sliders, chamador>>

\* tab3: the collection listing
Tab3 ==
    /\ pc = "tab3"
    /\ IF banco_guard
       THEN /\ db_uso' = db_uso \cup {"banco"}
            /\ erro' = IF db = "unbound" THEN "NameError" ELSE erro
       ELSE UNCHANGED <<db_uso, erro>>
    /\ pc' = "idle"
    /\ UNCHANGED <<firebase_apps, firebase_ready, db, moleculas, nome_molecula,
                   dados, clicked, sliders, simulacao, chamador>>

\* A widget event: Streamlit runs the script again from the top, in a fresh
\* module namespace (firebase_admin._apps and the widget values survive)
Rerun(botao) ==
    /\ pc = "idle"
    /\ pc' = "init_firebase"
    /\ clicked' = botao
    /\ firebase_ready' = "unset" /\ db' = "unbound" /\ db_uso' = {}
    /\ erro' = "none" /\ dados' = 0
    /\ mobilidade' = None /\ tempo_migracao' = None /\ raio_debye' = None
    /\ t' = <<>> /\ y' = <<>>
    /\ UNCHANGED <<firebase_apps, moleculas, chamador>>

EditarNome ==
    /\ \E n \in Nomes \ {nome_molecula} : nome_molecula' = n
    /\ Rerun("none")
    /\ UNCHANGED sliders

\* The two slider settings the script-run specification moves between:
\* the defaults and the low end of every slider
AjustesApp ==
    {<<VoltagemDefault, ComprimentoDefault, TemperaturaDefault,
       ViscosidadeDefault, ForcaIonicaDefault>>,
     <<5, 10, 15, 8, 10>>}

MoverSlider ==
    /\ \E a \in AjustesApp \ {sliders} :
          /\ voltagem' = a[1] /\ comprimento' = a[2] /\ temperatura' = a[3]
          /\ viscosidade' = a[4] /\ forca_ionica' = a[5]
    /\ Rerun("none")
    /\ UNCHANGED nome_molecula

ClicarSalvar ==
    /\ dados # 0
    /\ Rerun("salvar")
    /\ UNCHANGED <<nome_molecula, sliders>>

ClicarSimular ==
    /\ Rerun("simular")
    /\ UNCHANGED <<nome_molecula, sliders>>

Init ==
    /\ pc = "init_firebase"
    /\ firebase_apps = FALSE /\ firebase_ready = "unset" /\ db = "unbound"
    /\ db_uso = {} /\ erro = "none" /\ moleculas = {}
    /\ nome_molecula = 1 /\ dados = 0 /\ clicked = "none"
    /\ voltagem = VoltagemDefault /\ comprimento = ComprimentoDefault
    /\ temperatura = TemperaturaDefault /\ viscosidade = ViscosidadeDefault
    /\ forca_ionica = ForcaIonicaDefault
    /\ mobilidade = None /\ tempo_migracao = None /\ raio_debye = None
    /\ t = <<>> /\ y = <<>>
    /\ args = NoArgs /\ ret = None /\ ret2 = None

Next ==
    \/ InitFirebase
    \/ Tab1
    \/ Tab2
    \/ Tab3
    \/ EditarNome
    \/ MoverSlider
    \/ ClicarSalvar
    \/ ClicarSimular

Spec == Init /\ [][Next]_vars

(***************************************************************************)
(* The simulation block over the slider domains                            *)
(***************************************************************************)
InitSim ==
    /\ pc = "tab2" /\ clicked = "simular"
    /\ firebase_apps = FALSE /\ firebase_ready = FALSE /\ db = "unbound"
    /\ db_uso = {} /\ erro = "none" /\ moleculas = {}
    /\ nome_molecula = 1 /\ dados = 0
    /\ voltagem \in VoltagemDom /\ comprimento \in ComprimentoDom
    /\ temperatura \in TemperaturaDom /\ viscosidade \in ViscosidadeDom
    /\ forca_ionica \in ForcaIonicaDom
    /\ mobilidade = None /\ tempo_migracao = None /\ raio_debye = None
    /\ t = <<>> /\ y = <<>>
    /\ args = NoArgs /\ ret = None /\ ret2 = None

NextSim ==
    \/ Tab2
    \/ Tab3

SpecSim == InitSim /\ [][NextSim]_vars

(***************************************************************************)
(* calcular_mobilidade called directly, with arguments of any sign         *)
(***************************************************************************)
CargaDom == {Neg(Dec(1, 0)), Zero, Dec(2, 0)}
RaioDom == {Neg(Dec(1, -11)), Zero, Dec(1, -9)}
ViscosidadeArgDom == {Neg(Dec(1, 0)), Zero, Dec(1, 0)}
TemperaturaArgDom == {Neg(Dec(10, 0)), Zero, Dec(4, -1), Dec(29815, -2),
                      Dec(31315, -2)}
\* pairs forca_ionica < forca_ionica2
ForcaIonicaPares == {<<Zero, Dec(50, 0)>>, <<Dec(10, 0), Dec(50, 0)>>,
                     <<Dec(10, 0), Dec(200, 0)>>, <<Dec(50, 0), Dec(200, 0)>>}

InitMob ==
    /\ pc = "chamar"
    /\ \E c \in CargaDom, r \in RaioDom, v \in ViscosidadeArgDom,
          tk \in TemperaturaArgDom, fi \in ForcaIonicaPares :
          args = [carga |-> c, raio |-> r, viscosidade |-> v,
                  permissividade_rel |-> Dec(785, -1), temperatura |-> tk,
                  forca_ionica |-> fi[1], forca_ionica2 |-> fi[2]]
    /\ ret = None /\ ret2 = None
    /\ firebase_apps = FALSE /\ firebase_ready = "unset" /\ db = "unbound"
    /\ db_uso = {} /\ erro = "none" /\ moleculas = {}
    /\ nome_molecula = 1 /\ dados = 0 /\ clicked = "none"
    /\ voltagem = VoltagemDefault /\ comprimento = ComprimentoDefault
    /\ temperatura = TemperaturaDefault /\ viscosidade = ViscosidadeDefault
    /\ forca_ionica = ForcaIonicaDefault
    /\ mobilidade = None /\ tempo_migracao = None /\ raio_debye = None
    /\ t = <<>> /\ y = <<>>

\* simulator.calcular_mobilidade(**args)
Chamar ==
    /\ pc = "chamar"
    /\ ret' = calcular_mobilidade(args.carga, args.raio, args.viscosidade,
                                  args.permissividade_rel, args.temperatura,
                                  args.forca_ionica)
    /\ pc' = "chamar2"
    /\ UNCHANGED <<args, ret2, firebase, erro, nome_molecula, dados, clicked,
                   sliders, simulacao>>

\* the same call with the larger ionic strength, everything else held fixed
ChamarDeNovo ==
    /\ pc = "chamar2"
    /\ ret2' = calcular_mobilidade(args.carga, args.raio, args.viscosidade,
                                   args.permissividade_rel, args.temperatura,
                                   args.forca_ionica2)
    /\ pc' = "retornou"
    /\ UNCHANGED <<args, ret, firebase, erro, nome_molecula, dados, clicked,
                   sliders, simulacao>>

NextMob ==
    \/ Chamar
    \/ ChamarDeNovo

SpecMob == InitMob /\ [][NextMob]_vars

(***************************************************************************)
(* Properties                                                              *)
(***************************************************************************)
Retornado == pc \in {"chamar2", "retornou"}
Simulado == y # <<>>

Sinal(a) ==
    IF IsPositive(a) THEN "+" ELSE IF IsNegative(a) THEN "-"
    ELSE IF IsZero(a) THEN "0" ELSE a.k

\* |a - b| <= 1e-6 * |b|: equal up to the rounding of a few operations
RelTol == Dec(1, -6)
Perto(a, b) ==
    /\ IsNum(a) /\ IsNum(b)
    /\ ~Less(Mul(RelTol, Abs(b)), Abs(Sub(a, b)))

\* 1-based index of the sample stop/1.5 of a linspace from 0 (Python's 666)
PicoIdx == ((NumPontos - 1) * 2) \div 3 + 1
Amplitude == Dec(100, 0)

\* the arguments main() passes for the slider values of the state
ChamadaDeMain ==
    chamada(Dec(2, 0), Dec(1, -9), ViscosidadeFloat(viscosidade), Dec(785, -1),
            Kelvin(temperatura), Float(forca_ionica))

\* C1: a call with viscosity <= 0 or radius <= 0 (temperature and ionic
\* strength valid) produces no mobility value: it ends in an exception.  Any
\* raised exception is accepted here as the DomainError outcome.
C1_InvalidViscosityOrRadiusFails ==
    (/\ Retornado
     /\ ~IsPositive(args.viscosidade) \/ ~IsPositive(args.raio)
     /\ IsPositive(args.temperatura) /\ IsPositive(args.forca_ionica))
        => IsRaise(ret)

\* C2: a call with a negative absolute temperature (the other arguments
\* valid) ends in an exception and returns no value, in particular no nan.
C2_NegativeTemperatureFails ==
    (/\ Retornado
     /\ IsNegative(args.temperatura)
     /\ IsPositive(args.viscosidade) /\ IsPositive(args.raio)
     /\ IsPositive(args.forca_ionica))
        => IsRaise(ret)

\* C4: for valid arguments (viscosity, radius, temperature, ionic strength all
\* > 0) the returned mobility has the sign of the charge: positive, negative
\* or zero.
C4_MobilitySignIsChargeSign ==
    (/\ Retornado
     /\ IsPositive(args.viscosidade) /\ IsPositive(args.raio)
     /\ IsPositive(args.temperatura) /\ IsPositive(args.forca_ionica))
        => Sinal(ret) = Sinal(args.carga)

\* C5: after a simulation with slider values inside the slider domains the
\* mobility is a finite number > 0 and the migration time is a finite
\* number > 0.
C5_PositiveMobilityAndTime ==
    Simulado =>
        /\ IsNum(mobilidade) /\ IsPositive(mobilidade)
        /\ IsNum(tempo_migracao) /\ IsPositive(tempo_migracao)

\* C5 witness: the simulation has run at the high end of every slider
C5_Witness ==
    /\ Simulado
    /\ voltagem = 30 /\ comprimento = 100 /\ temperatura = 40
    /\ viscosidade = 25 /\ forca_ionica = 200
    /\ IsPositive(tempo_migracao)

\* C6: with charge # 0 and everything but the ionic strength held fixed, the
\* call with the larger ionic strength returns a mobility of strictly smaller
\* absolute value, whenever both calls return.
C6_AbsMobilityDecreasesWithIonicStrength ==
    (/\ pc = "retornou"
     /\ ~IsZero(args.carga)
     /\ ~IsRaise(ret) /\ ~IsRaise(ret2))
        => Less(Abs(ret2), Abs(ret))

\* the SI mobility of the state's slider values: the product without the 1e8
MobilidadeSI ==
    LET c == ChamadaDeMain
    IN  Mul(Mul(c.termo_stokes, c.fator_debye), c.fator_temp)

\* C7: the value calcular_mobilidade returned is the SI mobility times 1e8 and
\* the migration time is (length in m) / (SI mobility * voltage in V), up to
\* rounding: no power of ten is left over between the two steps.
C7_ScaleConventionConsistent ==
    Simulado =>
        /\ Perto(mobilidade, Mul(MobilidadeSI, Dec(1, 8)))
        /\ Perto(tempo_migracao,
                 NpDiv(Mul(Float(comprimento), Dec(1, -2)),
                       Mul(MobilidadeSI, Mul(Float(voltagem), Dec(1, 3)))))

\* C7 witness: a simulation whose mobility, in units of 1e-8 m2/Vs, is below 1
\* and whose migration time is above 1000 s
C7_Witness ==
    /\ Simulado
    /\ Less(mobilidade, One) /\ Less(Dec(1, 3), tempo_migracao)

\* C8 as stated: the time axis has a sample exactly at the migration time,
\* the curve there is exactly the amplitude 100, and every other sample of
\* the curve is strictly smaller.
C8_SampleExactlyAtMigrationTime ==
    Simulado =>
        \E i \in 1..NumPontos :
            /\ t[i] = tempo_migracao
            /\ y[i] = Amplitude
            /\ \A j \in 1..NumPontos : j # i => Less(y[j], y[i])

\* C8 amended: sample 666 of the time axis equals the migration time up to
\* floating-point rounding, the curve there is exactly the amplitude 100, and
\* every other sample of the curve is strictly smaller.
C8_PeakAtMigrationTimeUpToRounding ==
    Simulado =>
        /\ Len(t) = NumPontos /\ Len(y) = NumPontos
        /\ Perto(t[PicoIdx], tempo_migracao)
        /\ y[PicoIdx] = Amplitude
        /\ \A j \in 1..NumPontos : j # PicoIdx => Less(y[j], y[PicoIdx])

\* C8 witness: a curve whose sample 666 is not the migration time itself and
\* still carries the amplitude
C8_Witness ==
    /\ Simulado
    /\ t[PicoIdx] # tempo_migracao
    /\ y[PicoIdx] = Amplitude

\* C9: the Debye length of the simulation is the one of the slider's ionic
\* strength taken as mol/m^3, 1 mM counting as 1 mol/m^3:
\* sqrt(epsilon * k_B * T / (e^2 * forca_ionica * N_A)).
C9_DebyeLengthUsesMolPerM3 ==
    Simulado =>
        raio_debye =
            Sqrt(PyDiv(Mul(Mul(epsilon_of(Dec(785, -1)), k_B), Kelvin(temperatura)),
                       Mul(Mul(Mul(e_charge, e_charge), Float(forca_ionica)),
                           Avogadro)))

\* C10: db is dereferenced only in a run whose firebase_ready is True and whose
\* db is bound; a run whose init_firebase failed has firebase_ready False, db
\* unbound and no use of db, and no run ends in a NameError.
C10_DbUsedOnlyWhenFirebaseReady ==
    /\ erro # "NameError"
    /\ pc = "init_firebase" => db_uso = {}
    /\ pc # "init_firebase" =>
          /\ db_uso # {} => (firebase_ready = TRUE /\ db = "client")
          /\ firebase_ready = FALSE => (db = "unbound" /\ db_uso = {})
          /\ firebase_ready = TRUE => db = "client"

\* C10 witness: a run started by "Salvar no Banco" with init_firebase failed
\* found the molecule, went past the save and the collection listing, and ended
C10_Witness ==
    /\ pc = "idle" /\ erro = "none"
    /\ clicked = "salvar" /\ dados # 0
    /\ firebase_ready = FALSE /\ db = "unbound" /\ db_uso = {}

====
